---- MODULE Spec2Model ----
(***************************************************************************)
(* HomeMigrate: a USB monitor (detectUSB), the consumer of its events, the *)
(* start-migration handler, and the two-pass tree copy (copyHomeFolder,    *)
(* copyFile).  Strings are sequences of one-character strings, so that     *)
(* strings.HasPrefix, strings.Contains, strings.Split and the filepath     *)
(* functions are computed on characters as the Go code computes them.      *)
(***************************************************************************)
EXTENDS Integers, Sequences, FiniteSets, TLC

\* ------------------------------------------------------------------------
\* Bounds of the model
\* ------------------------------------------------------------------------
MaxParts == 2      \* rows of the mount table returned by one disk.Partitions call
MaxRuns == 2       \* migrations started in one behaviour
MaxErrs == 1       \* I/O errors the environment injects in one behaviour
MaxUSBs == 3       \* entries of availableUSBs

\* ------------------------------------------------------------------------
\* Characters and strings
\* ------------------------------------------------------------------------
\* The characters used, in byte order (the order sort.Strings compares by).
Ascii == <<" ", "(", ")", ".", "/", "0", "1", "2", "3", "4", "5", "6", "7", "8",
           "9", "B", "G", "_", "a", "b", "c", "d", "e", "f", "g", "h", "k", "l",
           "m", "n", "o", "p", "r", "s", "u", "v", "x">>

Ord(c) == CHOOSE i \in 1..Len(Ascii) : Ascii[i] = c

\* a < b in byte-wise lexical order
StrLess(a, b) ==
    \E i \in 1..Len(b) :
        /\ i - 1 <= Len(a)
        /\ SubSeq(a, 1, i - 1) = SubSeq(b, 1, i - 1)
        /\ (i > Len(a) \/ Ord(a[i]) < Ord(b[i]))

\* strings.HasPrefix(s, prefix): a comparison of bytes, not of path components
HasPrefix(s, prefix) ==
    /\ Len(s) >= Len(prefix)
    /\ SubSeq(s, 1, Len(prefix)) = prefix

\* strings.Contains(s, substr)
Contains(s, substr) ==
    \E i \in 0..(Len(s) - Len(substr)) : SubSeq(s, i + 1, i + Len(substr)) = substr

\* strings.Split(s, " ")[0]: the part of s before its first space
SplitFirst(s) ==
    IF \E i \in 1..Len(s) : s[i] = " "
    THEN SubSeq(s, 1, (CHOOSE i \in 1..Len(s) :
                          s[i] = " " /\ \A j \in 1..(i - 1) : s[j] # " ") - 1)
    ELSE s

\* ------------------------------------------------------------------------
\* path/filepath
\* ------------------------------------------------------------------------
Slash == <<"/">>
Dot == <<".">>

LastSlash(p) ==
    IF \E i \in 1..Len(p) : p[i] = "/"
    THEN CHOOSE i \in 1..Len(p) : p[i] = "/" /\ \A j \in (i + 1)..Len(p) : p[j] # "/"
    ELSE 0

RECURSIVE StripSlashes(_)
StripSlashes(p) ==
    IF p # <<>> /\ p[Len(p)] = "/" THEN StripSlashes(SubSeq(p, 1, Len(p) - 1)) ELSE p

\* filepath.Base
BaseOf(q) == IF q = <<>> THEN Slash ELSE SubSeq(q, LastSlash(q) + 1, Len(q))
Base(p) == IF p = <<>> THEN Dot ELSE BaseOf(StripSlashes(p))

FirstSlash(p) ==
    IF \E i \in 1..Len(p) : p[i] = "/"
    THEN CHOOSE i \in 1..Len(p) : p[i] = "/" /\ \A j \in 1..(i - 1) : p[j] # "/"
    ELSE Len(p) + 1

AddComponent(head, rest) ==
    IF head = <<>> \/ head = Dot THEN rest ELSE <<head>> \o rest

\* The components of a path: the non-empty, non-"." parts between slashes.
RECURSIVE Components(_)
ComponentsAt(p, n) ==
    AddComponent(SubSeq(p, 1, n - 1), Components(SubSeq(p, n + 1, Len(p))))

Components(p) == IF p = <<>> THEN <<>> ELSE ComponentsAt(p, FirstSlash(p))

RECURSIVE JoinComponents(_)
JoinComponents(cs) ==
    IF cs = <<>> THEN <<>>
    ELSE IF Len(cs) = 1 THEN cs[1]
    ELSE cs[1] \o Slash \o JoinComponents(Tail(cs))

Rooted(p, body) ==
    IF p # <<>> /\ p[1] = "/" THEN Slash \o body
    ELSE IF body = <<>> THEN Dot ELSE body

\* filepath.Clean, for paths without ".." components (the model has none)
Clean(p) == Rooted(p, JoinComponents(Components(p)))

\* filepath.Join(a, b): empty elements are ignored, the result is cleaned
Join(a, b) ==
    IF a = <<>> /\ b = <<>> THEN <<>>
    ELSE Clean(IF a = <<>> THEN b ELSE IF b = <<>> THEN a ELSE a \o Slash \o b)

\* filepath.Dir
DirAt(p, n) == IF n = 0 THEN Dot ELSE Clean(SubSeq(p, 1, n))
Dir(p) == DirAt(p, LastSlash(p))

IsAbs(p) == p # <<>> /\ p[1] = "/"

\* the working directory of the process (os.Getwd inside filepath.Abs)
Cwd == <<"/", "h">>

\* filepath.Abs
Abs(p) == Clean(IF IsAbs(p) THEN p ELSE Cwd \o Slash \o p)

\* filepath.Rel(base, targ) for targ = base or targ below base, the only
\* arguments the walk of base passes
Rel(base, targ) ==
    IF targ = base THEN Dot
    ELSE SubSeq(targ, Len(base) + 2, Len(targ))

\* ------------------------------------------------------------------------
\* Names and paths of the modelled machine
\* ------------------------------------------------------------------------
HomeDir == <<"/", "h">>                       \* what os.UserHomeDir returns
HomeBackup == <<"h", "o", "m", "e", "_", "b", "a", "c", "k", "u", "p">>
GoPkgMod == <<"g", "o", "/", "p", "k", "g", "/", "m", "o", "d">>
DotCache == <<".", "c", "a", "c", "h", "e">>
DotLocalShare == <<".", "l", "o", "c", "a", "l", "/", "s", "h", "a", "r", "e">>
DevSd == <<"/", "d", "e", "v", "/", "s", "d">>

MountM == <<"/", "m">>                        \* a mount point outside the home
MountV == <<"/", "v">>                        \* a second one
MountU == <<"/", "h", "/", "u">>              \* a mount point inside the home

\* ------------------------------------------------------------------------
\* File modes
\* ------------------------------------------------------------------------
Mode0755 == 493       \* the literal 0755 of os.MkdirAll(destHomeDir, 0755)
Mode0666 == 438       \* the mode os.Create opens a new file with
ModeBits == 9

RECURSIVE AndNotBits(_, _, _)
AndNotBits(m, mask, n) ==
    IF n = 0 THEN 0
    ELSE (IF m % 2 = 1 /\ mask % 2 = 0 THEN 1 ELSE 0)
         + 2 * AndNotBits(m \div 2, mask \div 2, n - 1)

\* perm &^ umask, what mkdir(2) and open(2) apply to a requested mode
AndNot(m, mask) == AndNotBits(m, mask, ModeBits)

\* ------------------------------------------------------------------------
\* The file system: a function from absolute clean paths to entries
\* ------------------------------------------------------------------------
DirEntry(mode) == [kind |-> "dir", mode |-> mode, data |-> 0]
FileEntry(mode, data) == [kind |-> "file", mode |-> mode, data |-> data]

Exists(f, p) == Abs(p) \in DOMAIN f
IsDir(f, p) == Exists(f, p) /\ f[Abs(p)].kind = "dir"

\* the entries directly inside directory p
Children(f, p) == {q \in DOMAIN f : q # p /\ Dir(q) = p}

RECURSIVE SortPaths(_)
SortPaths(S) ==
    IF S = {} THEN <<>>
    ELSE LET m == CHOOSE x \in S : \A y \in S \ {x} : StrLess(x, y)
         IN <<m>> \o SortPaths(S \ {m})

\* readDirNames of filepath.Walk: the names of a directory, sorted, joined to it
ReadDirNames(f, p) == SortPaths(Children(f, p))

\* os.MkdirAll(path, perm) under umask um.  An existing directory is left as it
\* is (its mode included); a missing one is created, parents first, each with
\* perm &^ umask.  Returns the error flag and the new file system.
MkdirIn(up, p, perm, um) ==
    IF up.err THEN up
    ELSE [err |-> FALSE, fs |-> up.fs @@ (p :> DirEntry(AndNot(perm, um)))]

RECURSIVE MkdirAllAbs(_, _, _, _)
MkdirAllAbs(f, p, perm, um) ==
    IF p \in DOMAIN f
    THEN [err |-> f[p].kind # "dir", fs |-> f]
    ELSE MkdirIn(MkdirAllAbs(f, Dir(p), perm, um), p, perm, um)

MkdirAll(f, path, perm, um) == MkdirAllAbs(f, Abs(path), perm, um)

\* os.Create(dst): a new file gets 0666 &^ umask, an existing one is truncated
\* and keeps its mode
Created(f, d, um) ==
    IF d \in DOMAIN f THEN [f EXCEPT ![d].data = 0]
    ELSE f @@ (d :> FileEntry(AndNot(Mode0666, um), 0))

\* io.Copy, os.Stat(src) and os.Chmod(dst, sourceInfo.Mode()) on the created file
Written(created, srcEntry, d, fail) ==
    IF fail = "copy" THEN [err |-> TRUE, fs |-> created]
    ELSE IF fail \in {"stat", "chmod"}
    THEN [err |-> TRUE, fs |-> [created EXCEPT ![d].data = srcEntry.data]]
    ELSE [err |-> FALSE,
          fs |-> [created EXCEPT ![d].data = srcEntry.data, ![d].mode = srcEntry.mode]]

CopyFileAbs(f, s, d, mk, fail, um) ==
    IF fail = "open" \/ s \notin DOMAIN f THEN [err |-> TRUE, fs |-> f]
    ELSE IF fail = "mkdir" \/ mk.err THEN [err |-> TRUE, fs |-> f]
    ELSE IF fail = "create" \/ (d \in DOMAIN mk.fs /\ mk.fs[d].kind = "dir")
    THEN [err |-> TRUE, fs |-> mk.fs]
    ELSE Written(Created(mk.fs, d, um), f[s], d, fail)

\* copyFile(src, dst) under umask um, with the step the environment makes fail
\* ("none" for no injected failure).  Returns the error flag and the new file
\* system: a failure after os.Create leaves the destination file behind.
CopyFile(f, src, dst, fail, um) ==
    CopyFileAbs(f, Abs(src), Abs(dst), MkdirAll(f, Dir(dst), Mode0755, um), fail, um)

CopyFileFails == {"open", "mkdir", "create", "copy", "stat", "chmod"}

\* ------------------------------------------------------------------------
\* The exclusion rules, as each pass of copyHomeFolder writes them
\* ------------------------------------------------------------------------
\* an enumeration pass that forgets the hidden-entry test
ExcludedCountNoHidden(path, absDestHomeDir) ==
    \/ Contains(path, GoPkgMod) \/ Contains(path, DotCache)
       \/ Contains(path, DotLocalShare)
    \/ HasPrefix(Abs(path), absDestHomeDir)

\* enumeration pass: the three "Skip ..." tests of the counting callback
ExcludedCount(path, absDestHomeDir) ==
    \/ HasPrefix(Base(path), Dot)
    \/ Contains(path, GoPkgMod) \/ Contains(path, DotCache)
       \/ Contains(path, DotLocalShare)
    \/ HasPrefix(Abs(path), absDestHomeDir)

\* a copy pass that forgets the excluded-substring test
ExcludedCopyNoSubstring(srcPath, absDestHomeDir) ==
    \/ HasPrefix(Base(srcPath), Dot)
    \/ HasPrefix(Abs(srcPath), absDestHomeDir)

\* copy pass: the three "Skip ..." tests of the copying callback
ExcludedCopy(srcPath, absDestHomeDir) ==
    \/ HasPrefix(Base(srcPath), Dot)
    \/ Contains(srcPath, GoPkgMod) \/ Contains(srcPath, DotCache)
       \/ Contains(srcPath, DotLocalShare)
    \/ HasPrefix(Abs(srcPath), absDestHomeDir)

\* float64(a) / float64(b) as the pair <<numerator, denominator>> in lowest
\* terms; a zero divisor gives +Inf (<<1, 0>>) or NaN (<<0, 0>>), never a panic.
RECURSIVE Gcd(_, _)
Gcd(a, b) == IF b = 0 THEN a ELSE Gcd(b, a % b)

FloatDiv(a, b) ==
    IF b = 0 THEN <<IF a = 0 THEN 0 ELSE 1, 0>>
    ELSE <<a \div Gcd(a, b), b \div Gcd(a, b)>>

FloatZero == <<0, 1>>
FloatOne == <<1, 1>>

\* ------------------------------------------------------------------------
\* Inputs: mount tables and file systems
\* ------------------------------------------------------------------------
DevSda1 == DevSd \o <<"a", "1">>
DevSdb1 == DevSd \o <<"b", "1">>
DevNv == <<"/", "d", "e", "v", "/", "n", "v">>

\* rows disk.Partitions can return: two removable devices mounted at the same
\* mount point, one of them also at a second one, and a fixed disk at /
Rows == {[Device |-> DevSda1, Mountpoint |-> MountM],
         [Device |-> DevSdb1, Mountpoint |-> MountM],
         [Device |-> DevSdb1, Mountpoint |-> MountV],
         [Device |-> DevNv, Mountpoint |-> Slash]}

SeqsUpTo(S, n) == UNION {[1..k -> S] : k \in 0..n}

Tables == SeqsUpTo(Rows, MaxParts)

\* the mount tables of the whole-application specification: one removable device
AppTables == {<<>>, <<[Device |-> DevSda1, Mountpoint |-> MountM]>>}

\* a removable device mounted on a directory whose name has a space in it
DevSdc1 == DevSd \o <<"c", "1">>
MountSp == <<"/", "a", " ", "b">>
UITables == {<<>>, <<[Device |-> DevSdc1, Mountpoint |-> MountSp]>>}

GiB == 1073741824
\* what unix.Statfs reports as Blocks * Bsize (0 also stands for its failure)
Sizes == {0, GiB}

NameA == <<"a">>
NameB == <<"b">>
NameF == <<"f">>
NameS == <<"s">>
NameU == <<"u">>
NameX == <<"x">>
NameHid == <<".", "h">>
NameCache == <<"c", ".", "c", "a", "c", "h", "e">>
HomeBackup2 == HomeBackup \o <<"2">>

H1(a) == Join(HomeDir, a)
H2(a, b) == Join(Join(HomeDir, a), b)
H3(a, b, c) == Join(Join(Join(HomeDir, a), b), c)

\* the machine outside the home directory: /, the home with mode hm, /m
Machine(hm) ==
    (Slash :> DirEntry(493)) @@ (HomeDir :> DirEntry(hm)) @@ (MountM :> DirEntry(493))

\* a backup left at /m by an earlier migration
OldBackup ==
    (Join(MountM, HomeBackup) :> DirEntry(448))
    @@ (Join(Join(MountM, HomeBackup), NameS) :> DirEntry(493))
    @@ (Join(Join(MountM, HomeBackup), NameA) :> FileEntry(384, 2))

TreeScenario ==
    (H1(NameA) :> FileEntry(420, 1))
    @@ (H1(NameHid) :> DirEntry(493))
    @@ (H2(NameHid, NameX) :> FileEntry(420, 2))
    @@ (H1(NameS) :> DirEntry(448))
    @@ (H2(NameS, NameB) :> FileEntry(384, 2))

TreeHiddenOnly ==
    (H1(NameHid) :> DirEntry(493)) @@ (H2(NameHid, NameX) :> FileEntry(420, 2))

\* a hidden directory, a directory matching ".cache", and a mount point in the home
TreeNested ==
    TreeScenario
    @@ (H1(NameCache) :> DirEntry(493))
    @@ (H2(NameCache, NameF) :> FileEntry(420, 1))
    @@ (H1(NameU) :> DirEntry(493))

\* the same with a backup of an earlier migration on the nested mount point,
\* and a file next to it whose name begins with the backup directory's name
TreeNestedOld ==
    TreeNested
    @@ (H2(NameU, HomeBackup) :> DirEntry(448))
    @@ (H3(NameU, HomeBackup, NameA) :> FileEntry(384, 2))
    @@ (H2(NameU, HomeBackup2) :> FileEntry(420, 1))

EmptyFs == [p \in {} |-> DirEntry(0)]

Trees == {EmptyFs, TreeScenario, TreeHiddenOnly, TreeNested, TreeNestedOld}
HomeModes == {448, 493}
Umasks == {0, 18}
Backups == {EmptyFs, OldBackup}

\* the file systems copyHomeFolder is called on
FsInputs == {t @@ b @@ Machine(hm) : t \in Trees, b \in Backups, hm \in HomeModes}

\* the destination paths copyHomeFolder is called with
DestInputs == {MountM, MountU}

\* the file system of the whole-application specification
AppFs == (H1(NameA) :> FileEntry(420, 1)) @@ Machine(448)

\* ------------------------------------------------------------------------
\* State
\* ------------------------------------------------------------------------
VARIABLES
    mpc,                 \* detectUSB: the statement the monitor is at
    previousPartitions,  \* detectUSB: the snapshot kept from the last cycle
    currentPartitions,   \* detectUSB: the removable mount points of this cycle
    mi,                  \* detectUSB: index of the range loop being run
    cycleSent,           \* history: the events sent in the current cycle
    lastPoll,            \* history: how the last disk.Partitions call ended
    cpc,                 \* consumer goroutine: receiving or handling an event
    event,               \* consumer goroutine: the event received
    availableUSBs,       \* main: the list of known drives
    usbSelect,           \* main: the dropdown (Options, Selected, Visible)
    status,              \* main: the status label
    progress,            \* main: the progress bar (Value, Visible)
    dialogs,             \* the dialogs shown
    click,               \* history: how the last click on Start Migration ended
    runs,                \* the calls of copyHomeFolder, one record per call
    fs,                  \* the file system
    umask,               \* the umask of the process
    errs                 \* I/O errors injected so far

monitorVars == <<mpc, previousPartitions, currentPartitions, mi, cycleSent, lastPoll>>
consumerVars == <<cpc, event, availableUSBs>>
uiVars == <<usbSelect, status, dialogs, click>>
runVars == <<progress, runs, fs, errs>>
vars == <<mpc, previousPartitions, currentPartitions, mi, cycleSent, lastPoll,
          cpc, event, availableUSBs, usbSelect, status, progress, dialogs, click,
          runs, fs, umask, errs>>

NoEvent == [path |-> <<>>, removed |-> FALSE]

InitApp ==
    /\ mpc = "poll"
    /\ previousPartitions = <<>>
    /\ currentPartitions = <<>>
    /\ mi = 1
    /\ cycleSent = <<>>
    /\ lastPoll = "none"
    /\ cpc = "recv"
    /\ event = NoEvent
    /\ availableUSBs = <<>>
    /\ usbSelect = [Options |-> <<>>, Selected |-> <<>>, Visible |-> FALSE]
    /\ status = "Waiting for USB drive..."
    /\ progress = [Value |-> FloatZero, Visible |-> FALSE]
    /\ dialogs = {}
    /\ click = "none"
    /\ runs = <<>>
    /\ errs = 0

Init ==
    /\ InitApp
    /\ fs = AppFs
    /\ umask = 18

InitCopy ==
    /\ InitApp
    /\ fs \in FsInputs
    /\ umask \in Umasks

\* ------------------------------------------------------------------------
\* detectUSB
\* ------------------------------------------------------------------------
\* the Mountpoint of every row whose Device begins with "/dev/sd", in table order
RECURSIVE Removable(_)
Removable(partitions) ==
    IF partitions = <<>> THEN <<>>
    ELSE (IF HasPrefix(Head(partitions).Device, DevSd)
          THEN <<Head(partitions).Mountpoint>> ELSE <<>>)
         \o Removable(Tail(partitions))

InList(x, list) == \E j \in 1..Len(list) : list[j] = x

\* the elements of current that are not in previous, one per occurrence
RECURSIVE NotIn(_, _)
NotIn(current, previous) ==
    IF current = <<>> THEN <<>>
    ELSE (IF InList(Head(current), previous) THEN <<>> ELSE <<Head(current)>>)
         \o NotIn(Tail(current), previous)

\* the length availableUSBs would reach if the mount points of current were
\* polled now (the event still being handled included)
Room(current) ==
    Len(availableUSBs) + Len(NotIn(current, previousPartitions))
    + (IF cpc = "handle" /\ ~event.removed /\ event.path # <<>> THEN 1 ELSE 0)

\* disk.Partitions succeeds: currentPartitions is built, the first loop begins
\* (the model stops polling tables that would grow availableUSBs past MaxUSBs)
Poll(partitions) ==
    /\ mpc = "poll"
    /\ Room(Removable(partitions)) <= MaxUSBs
    /\ currentPartitions' = Removable(partitions)
    /\ mi' = 1
    /\ mpc' = "added"
    /\ cycleSent' = <<>>
    /\ lastPoll' = "ok"
    /\ UNCHANGED <<previousPartitions, consumerVars, uiVars, runVars, umask>>

\* a failed query taken for an empty mount table, and the cycle carried on
PollFailAsEmpty ==
    /\ mpc = "poll"
    /\ currentPartitions' = <<>>
    /\ mi' = 1
    /\ mpc' = "added"
    /\ cycleSent' = <<>>
    /\ lastPoll' = "failed"
    /\ UNCHANGED <<previousPartitions, consumerVars, uiVars, runVars, umask>>

\* disk.Partitions fails: the error is logged and the loop continues
PollFail ==
    /\ mpc = "poll"
    /\ mpc' = "poll"
    /\ cycleSent' = <<>>
    /\ lastPoll' = "failed"
    /\ UNCHANGED <<previousPartitions, currentPartitions, mi, consumerVars, uiVars,
                   runVars, umask>>

\* a send that does not wait for the consumer to be receiving
SendNoWait(e) ==
    /\ cpc' = "handle"
    /\ event' = e
    /\ cycleSent' = Append(cycleSent, e)

\* usbChan <- e on the unbuffered channel: the send completes when the consumer
\* goroutine, waiting in its range loop, takes the event
Send(e) ==
    /\ cpc = "recv"
    /\ cpc' = "handle"
    /\ event' = e
    /\ cycleSent' = Append(cycleSent, e)

\* one iteration of "Check for new USB drives", or the end of that loop
AddedStep ==
    /\ mpc = "added"
    /\ IF mi > Len(currentPartitions)
       THEN /\ mpc' = "removed"
            /\ mi' = 1
            /\ UNCHANGED <<cycleSent, cpc, event>>
       ELSE /\ IF InList(currentPartitions[mi], previousPartitions)
               THEN UNCHANGED <<cycleSent, cpc, event>>
               ELSE Send([path |-> currentPartitions[mi], removed |-> FALSE])
            /\ mi' = mi + 1
            /\ mpc' = mpc
    /\ UNCHANGED <<previousPartitions, currentPartitions, lastPoll, availableUSBs,
                   uiVars, runVars, umask>>

\* one iteration of "Check for removed USB drives", or the end of that loop
RemovedStep ==
    /\ mpc = "removed"
    /\ IF mi > Len(previousPartitions)
       THEN /\ mpc' = "assign"
            /\ mi' = 1
            /\ UNCHANGED <<cycleSent, cpc, event>>
       ELSE /\ IF InList(previousPartitions[mi], currentPartitions)
               THEN UNCHANGED <<cycleSent, cpc, event>>
               ELSE Send([path |-> previousPartitions[mi], removed |-> TRUE])
            /\ mi' = mi + 1
            /\ mpc' = mpc
    /\ UNCHANGED <<previousPartitions, currentPartitions, lastPoll, availableUSBs,
                   uiVars, runVars, umask>>

\* previousPartitions = currentPartitions
Assign ==
    /\ mpc = "assign"
    /\ previousPartitions' = currentPartitions
    /\ mpc' = "sleep"
    /\ UNCHANGED <<currentPartitions, mi, cycleSent, lastPoll, consumerVars, uiVars,
                   runVars, umask>>

\* time.Sleep(2 * time.Second)
Sleep ==
    /\ mpc = "sleep"
    /\ mpc' = "poll"
    /\ UNCHANGED <<previousPartitions, currentPartitions, mi, cycleSent, lastPoll,
                   consumerVars, uiVars, runVars, umask>>

\* ------------------------------------------------------------------------
\* The consumer goroutine of main
\* ------------------------------------------------------------------------
Digits == <<"0", "1", "2", "3", "4", "5", "6", "7", "8", "9">>

RECURSIVE Decimal(_)
Decimal(n) ==
    IF n < 10 THEN <<Digits[n + 1]>> ELSE Decimal(n \div 10) \o <<Digits[(n % 10) + 1]>>

\* fmt.Sprintf("%.1f", float64(size) / (1024 * 1024 * 1024))
FormatGB(size) ==
    LET kib == size \div 1024
        tenths == (kib * 10 + (GiB \div 2048)) \div (GiB \div 1024)
    IN Decimal(tenths \div 10) \o Dot \o Decimal(tenths % 10)

\* fmt.Sprintf("%s (%.1f GB)", usb.name, sizeGB)
OptionName(usb) ==
    usb.name \o <<" ", "(">> \o FormatGB(usb.size) \o <<" ", "G", "B", ")">>

\* append(availableUSBs[:i], availableUSBs[i+1:]...) for the first i with the path
RemoveFirst(list, path) ==
    IF \E i \in 1..Len(list) : list[i].path = path
    THEN LET i == CHOOSE k \in 1..Len(list) :
                      list[k].path = path /\ \A j \in 1..(k - 1) : list[j].path # path
         IN SubSeq(list, 1, i - 1) \o SubSeq(list, i + 1, Len(list))
    ELSE list

\* the body of "for event := range usbChan" for the event received, with size
\* the capacity unix.Statfs reports for an attached drive
Handle(size) ==
    /\ cpc = "handle"
    /\ LET list == IF event.removed THEN RemoveFirst(availableUSBs, event.path)
                   ELSE IF event.path # <<>>
                        THEN Append(availableUSBs,
                                    [name |-> Base(event.path), path |-> event.path,
                                     size |-> size])
                        ELSE availableUSBs
           names == [i \in 1..Len(list) |-> OptionName(list[i])]
           found == \E i \in 1..Len(list) : list[i].name = usbSelect.Selected
           sel1 == IF event.removed /\ ~found THEN <<>> ELSE usbSelect.Selected
       IN /\ availableUSBs' = list
          /\ IF Len(list) > 0
             THEN /\ status' = "Please select a USB drive for migration"
                  /\ usbSelect' = [Options |-> names, Selected |-> sel1,
                                   Visible |-> TRUE]
             ELSE /\ status' = "Waiting for USB drive..."
                  /\ usbSelect' = [Options |-> names, Selected |-> <<>>,
                                   Visible |-> FALSE]
    /\ cpc' = "recv"
    /\ UNCHANGED <<monitorVars, event, dialogs, click, runVars, umask>>

\* ------------------------------------------------------------------------
\* The user interface: the dropdown and the Start Migration button
\* ------------------------------------------------------------------------
\* the user picks option i of the dropdown; its callback sets the status
UserSelect(i) ==
    /\ usbSelect.Visible
    /\ i \in 1..Len(usbSelect.Options)
    /\ usbSelect' = [usbSelect EXCEPT !.Selected = usbSelect.Options[i]]
    /\ status' = "Selected USB drive"
    /\ UNCHANGED <<monitorVars, consumerVars, dialogs, click, runVars, umask>>

\* ------------------------------------------------------------------------
\* copyHomeFolder, one record of runs per call
\* ------------------------------------------------------------------------
\* A call that has just been made.  The fields after err are history: the paths
\* each walk called its callback on, the files counted and copied, the
\* (copiedFiles, totalFiles) pairs behind each progress.SetValue of the copy
\* pass, whether an I/O error was met, the number of the file copy that failed,
\* the number of progress.SetValue calls, and the outcomes reported.
NewRun(destPath) ==
    [pc |-> "home", destPath |-> destPath, homeDir |-> <<>>, destHomeDir |-> <<>>,
     absDestHomeDir |-> <<>>, totalFiles |-> 0, copiedFiles |-> 0, todo |-> <<>>,
     err |-> "nil",
     visited1 |-> {}, visited2 |-> {}, counted |-> {}, copied |-> {},
     sink |-> <<>>, ioError |-> FALSE, failedCopy |-> 0, updates |-> 0,
     outcomes |-> <<>>, steps |-> 0]

\* go func() { err := copyHomeFolder(selectedPath, progress) ...
Spawn(selectedPath) ==
    /\ progress' = [progress EXCEPT !.Visible = TRUE]
    /\ runs' = Append(runs, NewRun(selectedPath))

Inject(w) ==
    /\ w # "none" => errs < MaxErrs
    /\ errs' = IF w = "none" THEN errs ELSE errs + 1

\* os.UserHomeDir, filepath.Join and filepath.Abs at the head of copyHomeFolder
RunHome(r, w) ==
    /\ r \in 1..Len(runs)
    /\ runs[r].pc = "home"
    /\ w \in {"none", "home", "abs"}
    /\ w = "abs" => ~IsAbs(Join(runs[r].destPath, HomeBackup))
    /\ Inject(w)
    /\ LET run == runs[r]
           dest == Join(run.destPath, HomeBackup)
       IN runs' = [runs EXCEPT ![r] =
              IF w = "home"
              THEN [run EXCEPT !.pc = "ret", !.ioError = TRUE, !.steps = @ + 1,
                               !.err = "error getting home directory"]
              ELSE IF w = "abs"
              THEN [run EXCEPT !.pc = "ret", !.ioError = TRUE, !.homeDir = HomeDir,
                               !.destHomeDir = dest, !.steps = @ + 1,
                               !.err = "error getting absolute path"]
              ELSE [run EXCEPT !.pc = "count", !.homeDir = HomeDir,
                               !.destHomeDir = dest, !.absDestHomeDir = Abs(dest),
                               !.todo = <<HomeDir>>, !.steps = @ + 1]]
    /\ UNCHANGED <<monitorVars, consumerVars, uiVars, progress, fs, umask>>

\* filepath.Walk, before it calls the callback on a path: the lstat of the path
\* fails (w = "lstat", or the path is gone), or the path is a directory that
\* cannot be read (w = "readdir")
LstatErr(f, path, w) == w = "lstat" \/ path \notin DOMAIN f
WalkIsDir(f, path, w) == ~LstatErr(f, path, w) /\ f[path].kind = "dir"
WalkErr(f, path, w) == LstatErr(f, path, w) \/ (WalkIsDir(f, path, w) /\ w = "readdir")

\* the callback of the enumeration walk on path: "err" (logged, nil returned),
\* "skip" (an excluded entry: SkipDir for a directory, nil for a file), "dir"
\* (nil: the walk descends) or "file" (totalFiles++)
CountFn(f, path, w, absDestHomeDir) ==
    IF WalkErr(f, path, w) THEN "err"
    ELSE IF ExcludedCount(path, absDestHomeDir) THEN "skip"
    ELSE IF f[path].kind = "dir" THEN "dir"
    ELSE "file"

\* what the walk goes on with after a callback
WalkOn(f, path, descend, stop, rest) ==
    IF stop THEN <<>>
    ELSE (IF descend THEN ReadDirNames(f, path) ELSE <<>>) \o rest

\* an enumeration pass whose callback returns the walk error it is given
CountApplyAbort(r, path, res, todo) ==
    runs' = [runs EXCEPT ![r] =
        [@ EXCEPT !.todo = IF res = "err" THEN <<>> ELSE todo,
                  !.totalFiles = IF res = "file" THEN @ + 1 ELSE @,
                  !.counted = IF res = "file" THEN @ \cup {path} ELSE @,
                  !.visited1 = @ \cup {path},
                  !.ioError = @ \/ res = "err",
                  !.err = IF res = "err" THEN "error counting files" ELSE @,
                  !.steps = @ + 1,
                  !.pc = IF res = "err" THEN "ret"
                         ELSE IF todo = <<>> THEN "prep" ELSE "count"]]

CountApply(r, path, res, todo) ==
    runs' = [runs EXCEPT ![r] =
        [@ EXCEPT !.todo = todo,
                  !.totalFiles = IF res = "file" THEN @ + 1 ELSE @,
                  !.counted = IF res = "file" THEN @ \cup {path} ELSE @,
                  !.visited1 = @ \cup {path},
                  !.ioError = @ \/ res = "err",
                  !.steps = @ + 1,
                  !.pc = IF todo = <<>> THEN "prep" ELSE "count"]]

CountWalk(r, path, res) ==
    CountApply(r, path, res, WalkOn(fs, path, res = "dir", FALSE, Tail(runs[r].todo)))

\* One callback of the enumeration walk, on the next path of the walk.  w is the
\* failure the environment injects: of the lstat of the path, or of reading it
\* as a directory.
CountStep(r, w) ==
    /\ r \in 1..Len(runs)
    /\ runs[r].pc = "count"
    /\ w \in {"none", "lstat", "readdir"}
    /\ w = "readdir" => IsDir(fs, Head(runs[r].todo))
    /\ Inject(w)
    /\ CountWalk(r, Head(runs[r].todo),
                 CountFn(fs, Head(runs[r].todo), w, runs[r].absDestHomeDir))
    /\ UNCHANGED <<monitorVars, consumerVars, uiVars, progress, fs, umask>>

PrepApply(r, failed, mk) ==
    /\ fs' = IF failed THEN fs ELSE mk.fs
    /\ runs' = [runs EXCEPT ![r] =
           IF failed
           THEN [@ EXCEPT !.pc = "ret", !.ioError = TRUE, !.updates = @ + 1,
                          !.steps = @ + 1,
                          !.err = "error creating destination directory"]
           ELSE [@ EXCEPT !.pc = "copy", !.updates = @ + 1, !.steps = @ + 1,
                          !.todo = <<runs[r].homeDir>>]]

PrepMkdir(r, w, mk) == PrepApply(r, w = "mkdirall" \/ mk.err, mk)

\* progress.SetValue(0) and os.MkdirAll(destHomeDir, 0755)
Prep(r, w) ==
    /\ r \in 1..Len(runs)
    /\ runs[r].pc = "prep"
    /\ w \in {"none", "mkdirall"}
    /\ Inject(w)
    /\ PrepMkdir(r, w, MkdirAll(fs, runs[r].destHomeDir, Mode0755, umask))
    /\ progress' = [progress EXCEPT !.Value = FloatZero]
    /\ UNCHANGED <<monitorVars, consumerVars, uiVars, umask>>

MirrorDir(f, destFilePath, mode, w, um, mk) ==
    IF w = "mkdirall" \/ mk.err
    THEN [kind |-> "dir", failed |-> TRUE, fs |-> f]
    ELSE [kind |-> "dir", failed |-> FALSE, fs |-> mk.fs]

MirrorFile(cf) == [kind |-> "file", failed |-> cf.err, fs |-> cf.fs]

Mirror(f, srcPath, destFilePath, w, um) ==
    IF f[srcPath].kind = "dir"
    THEN MirrorDir(f, destFilePath, f[srcPath].mode, w, um,
                   MkdirAll(f, destFilePath, f[srcPath].mode, um))
    ELSE MirrorFile(CopyFile(f, srcPath, destFilePath,
                             IF w \in CopyFileFails THEN w ELSE "none", um))

\* the callback of the copy walk on srcPath.  kind is "err" (a walk error,
\* returned), "skip" (an excluded entry), "dir" (a directory mirrored with
\* os.MkdirAll) or "file" (a file copied with copyFile); failed tells whether
\* the callback returns an error, fs is the file system it leaves.
CopyFn(f, srcPath, w, homeDir, destHomeDir, absDestHomeDir, um) ==
    IF WalkErr(f, srcPath, w) THEN [kind |-> "err", failed |-> TRUE, fs |-> f]
    ELSE IF ExcludedCopy(srcPath, absDestHomeDir)
    THEN [kind |-> "skip", failed |-> FALSE, fs |-> f]
    ELSE Mirror(f, srcPath, Join(destHomeDir, Rel(homeDir, srcPath)), w, um)

\* a copy pass that removes what it has written when a callback fails
CopyApplyRollback(r, w, srcPath, res, todo, copiedFiles, totalFiles) ==
    /\ w = "readdir" => IsDir(fs, srcPath)
    /\ w = "mkdirall" => res.kind = "dir"
    /\ w \in CopyFileFails => res.kind = "file"
    /\ fs' = IF res.failed
             THEN [q \in {q \in DOMAIN fs : ~HasPrefix(q, runs[r].absDestHomeDir)}
                     |-> fs[q]]
             ELSE res.fs
    /\ IF res.kind = "file" /\ ~res.failed
       THEN /\ progress' = [progress EXCEPT
                                !.Value = FloatDiv(copiedFiles, totalFiles)]
            /\ runs' = [runs EXCEPT ![r] =
                   [@ EXCEPT !.todo = todo,
                             !.visited2 = @ \cup {srcPath},
                             !.copiedFiles = copiedFiles,
                             !.copied = @ \cup {srcPath},
                             !.sink = Append(@, <<copiedFiles, totalFiles>>),
                             !.updates = @ + 1,
                             !.steps = @ + 1,
                             !.pc = IF todo = <<>> THEN "ret" ELSE "copy"]]
       ELSE /\ progress' = progress
            /\ runs' = [runs EXCEPT ![r] =
                   [@ EXCEPT !.todo = todo,
                             !.visited2 = @ \cup {srcPath},
                             !.ioError = @ \/ res.failed,
                             !.failedCopy = IF res.kind = "file" /\ res.failed
                                            THEN copiedFiles ELSE @,
                             !.err = IF res.failed THEN "error copying files" ELSE @,
                             !.steps = @ + 1,
                             !.pc = IF todo = <<>> THEN "ret" ELSE "copy"]]

CopyApply(r, w, srcPath, res, todo, copiedFiles, totalFiles) ==
    /\ w = "readdir" => IsDir(fs, srcPath)
    /\ w = "mkdirall" => res.kind = "dir"
    /\ w \in CopyFileFails => res.kind = "file"
    /\ fs' = res.fs
    /\ IF res.kind = "file" /\ ~res.failed
       THEN /\ progress' = [progress EXCEPT
                                !.Value = FloatDiv(copiedFiles, totalFiles)]
            /\ runs' = [runs EXCEPT ![r] =
                   [@ EXCEPT !.todo = todo,
                             !.visited2 = @ \cup {srcPath},
                             !.copiedFiles = copiedFiles,
                             !.copied = @ \cup {srcPath},
                             !.sink = Append(@, <<copiedFiles, totalFiles>>),
                             !.updates = @ + 1,
                             !.steps = @ + 1,
                             !.pc = IF todo = <<>> THEN "ret" ELSE "copy"]]
       ELSE /\ progress' = progress
            /\ runs' = [runs EXCEPT ![r] =
                   [@ EXCEPT !.todo = todo,
                             !.visited2 = @ \cup {srcPath},
                             !.ioError = @ \/ res.failed,
                             !.failedCopy = IF res.kind = "file" /\ res.failed
                                            THEN copiedFiles ELSE @,
                             !.err = IF res.failed THEN "error copying files" ELSE @,
                             !.steps = @ + 1,
                             !.pc = IF todo = <<>> THEN "ret" ELSE "copy"]]

\* a copy walk that goes on after a callback has returned an error
CopyWalkContinue(r, w, srcPath, res) ==
    CopyApply(r, w, srcPath, res,
              WalkOn(fs, srcPath, res.kind = "dir" /\ ~res.failed, FALSE,
                     Tail(runs[r].todo)),
              runs[r].copiedFiles + 1, runs[r].totalFiles)

CopyWalk(r, w, srcPath, res) ==
    CopyApply(r, w, srcPath, res,
              WalkOn(fs, srcPath, res.kind = "dir", res.failed, Tail(runs[r].todo)),
              runs[r].copiedFiles + 1, runs[r].totalFiles)

\* One callback of the copy walk, on the next path of the walk.  w is the
\* failure the environment injects: of the lstat of the path, of reading it as
\* a directory, of the os.MkdirAll of a mirrored directory, or of a step of
\* copyFile.
CopyStep(r, w) ==
    /\ r \in 1..Len(runs)
    /\ runs[r].pc = "copy"
    /\ w \in {"none", "lstat", "readdir", "mkdirall"} \cup CopyFileFails
    /\ Inject(w)
    /\ CopyWalk(r, w, Head(runs[r].todo),
                CopyFn(fs, Head(runs[r].todo), w, runs[r].homeDir,
                       runs[r].destHomeDir, runs[r].absDestHomeDir, umask))
    /\ UNCHANGED <<monitorVars, consumerVars, uiVars, umask>>

\* a goroutine that shows the success dialog after the error dialog as well
ReportBoth(r) ==
    /\ r \in 1..Len(runs)
    /\ runs[r].pc = "ret"
    /\ dialogs' = dialogs \cup {[kind |-> "error", run |-> r, msg |-> runs[r].err],
                                [kind |-> "information", run |-> r, msg |-> "nil"]}
    /\ status' = "Migration completed successfully!"
    /\ runs' = [runs EXCEPT ![r] =
           [@ EXCEPT !.pc = "done", !.steps = @ + 1,
                     !.outcomes = Append(@, [kind |-> "information", msg |-> "nil",
                                             updates |-> runs[r].updates])]]
    /\ progress' = [progress EXCEPT !.Visible = FALSE]
    /\ UNCHANGED <<monitorVars, consumerVars, usbSelect, click, fs, umask, errs>>

\* the rest of the goroutine of the start handler: the dialog, the status and
\* progress.Hide() once copyHomeFolder has returned
Report(r) ==
    /\ r \in 1..Len(runs)
    /\ runs[r].pc = "ret"
    /\ LET run == runs[r]
           kind == IF run.err # "nil" THEN "error" ELSE "information"
       IN /\ dialogs' = dialogs \cup {[kind |-> kind, run |-> r, msg |-> run.err]}
          /\ status' = IF run.err # "nil" THEN "Migration failed"
                       ELSE "Migration completed successfully!"
          /\ runs' = [runs EXCEPT ![r] =
                 [run EXCEPT !.pc = "done", !.steps = @ + 1,
                             !.outcomes = Append(@, [kind |-> kind, msg |-> run.err,
                                                     updates |-> run.updates])]]
    /\ progress' = [progress EXCEPT !.Visible = FALSE]
    /\ UNCHANGED <<monitorVars, consumerVars, usbSelect, click, fs, umask, errs>>

\* a handler without the test of usbSelect.Selected
StartBtnNoCheck ==
    /\ Len(runs) < MaxRuns
    /\ Spawn(<<>>)
    /\ click' = "started"
    /\ UNCHANGED <<monitorVars, consumerVars, usbSelect, status, dialogs, fs,
                   umask, errs>>

\* the handler of the Start Migration button
StartBtn ==
    IF usbSelect.Selected = <<>>
    THEN /\ dialogs' = dialogs \cup {[kind |-> "error", run |-> 0,
                                      msg |-> "please select a USB drive first"]}
         /\ click' = "rejected"
         /\ UNCHANGED <<monitorVars, consumerVars, usbSelect, status, runVars, umask>>
    ELSE /\ Len(runs) < MaxRuns
         /\ LET first == SplitFirst(usbSelect.Selected)
                selectedPath ==
                    IF \E i \in 1..Len(availableUSBs) : availableUSBs[i].name = first
                    THEN availableUSBs[CHOOSE i \in 1..Len(availableUSBs) :
                             /\ availableUSBs[i].name = first
                             /\ \A j \in 1..(i - 1) : availableUSBs[j].name # first].path
                    ELSE <<>>
            IN Spawn(selectedPath)
         /\ click' = "started"
         /\ UNCHANGED <<monitorVars, consumerVars, usbSelect, status, dialogs, fs,
                        umask, errs>>

\* copyHomeFolder called on a destination of DestInputs that is a mounted
\* directory, as the goroutine of the start handler calls it
CallCopy(destPath) ==
    /\ runs = <<>>
    /\ IsDir(fs, destPath)
    /\ Spawn(destPath)
    /\ UNCHANGED <<monitorVars, consumerVars, uiVars, fs, umask, errs>>

WalkFails == {"none", "lstat", "readdir"}
CopyFails == WalkFails \cup {"mkdirall"} \cup CopyFileFails

\* ------------------------------------------------------------------------
\* Specifications
\* ------------------------------------------------------------------------
\* the whole application, on one small home directory and one removable device
Next ==
    \/ \E t \in AppTables : Poll(t)
    \/ PollFail
    \/ AddedStep
    \/ RemovedStep
    \/ Assign
    \/ Sleep
    \/ \E size \in Sizes : Handle(size)
    \/ \E i \in 1..MaxParts : UserSelect(i)
    \/ StartBtn
    \/ \E r \in 1..MaxRuns : \E w \in {"none", "home"} : RunHome(r, w)
    \/ \E r \in 1..MaxRuns : \E w \in WalkFails : CountStep(r, w)
    \/ \E r \in 1..MaxRuns : \E w \in {"none", "mkdirall"} : Prep(r, w)
    \/ \E r \in 1..MaxRuns : \E w \in CopyFails : CopyStep(r, w)
    \/ \E r \in 1..MaxRuns : Report(r)

Spec == Init /\ [][Next]_vars

\* the monitor, the consumer and the dropdown, on every mount table of Tables
NextUSB ==
    \/ \E t \in Tables : Poll(t)
    \/ PollFail
    \/ AddedStep
    \/ RemovedStep
    \/ Assign
    \/ Sleep
    \/ \E size \in Sizes : Handle(size)
    \/ \E i \in 1..(2 * MaxParts) : UserSelect(i)

SpecUSB == Init /\ [][NextUSB]_vars

\* the monitor, the consumer, the dropdown and the Start Migration handler, on
\* a device whose mount point has a space in its name; the goroutines the
\* handler starts are not run
NextUI ==
    \/ \E t \in UITables : Poll(t)
    \/ PollFail
    \/ AddedStep
    \/ RemovedStep
    \/ Assign
    \/ Sleep
    \/ \E size \in Sizes : Handle(size)
    \/ \E i \in 1..MaxParts : UserSelect(i)
    \/ StartBtn

SpecUI == Init /\ [][NextUI]_vars

\* one call of copyHomeFolder on every file system of FsInputs
NextCopy ==
    \/ \E d \in DestInputs : CallCopy(d)
    \/ \E w \in {"none", "home"} : RunHome(1, w)
    \/ \E w \in WalkFails : CountStep(1, w)
    \/ \E w \in {"none", "mkdirall"} : Prep(1, w)
    \/ \E w \in CopyFails : CopyStep(1, w)
    \/ Report(1)

SpecCopy == InitCopy /\ [][NextCopy]_vars

\* ------------------------------------------------------------------------
\* Sets the properties speak of
\* ------------------------------------------------------------------------
SetOf(list) == {list[i] : i \in 1..Len(list)}

Attached == {i \in 1..Len(cycleSent) : ~cycleSent[i].removed}
Detached == {i \in 1..Len(cycleSent) : cycleSent[i].removed}

InHome(p) == p = HomeDir \/ HasPrefix(p, HomeDir \o Slash)
Under(p, q) == HasPrefix(p, q \o Slash)

\* the entries of the home directory that no exclusion rule keeps from the
\* walks: neither they nor a directory above them is excluded
SourceEntries(f, absDest) ==
    {p \in DOMAIN f :
        /\ InHome(p)
        /\ \A q \in DOMAIN f :
               (InHome(q) /\ (q = p \/ Under(p, q))) => ~ExcludedCount(q, absDest)}

SourceFiles(f, absDest) == {p \in SourceEntries(f, absDest) : f[p].kind = "file"}

\* the entries inside a hidden directory, inside a directory matching an
\* excluded substring, or inside the backup directory
PrunedDirs(f, absDest) ==
    {q \in DOMAIN f :
        /\ InHome(q) /\ q # HomeDir /\ f[q].kind = "dir"
        /\ \/ Base(q)[1] = "."
           \/ Contains(q, GoPkgMod) \/ Contains(q, DotCache) \/ Contains(q, DotLocalShare)
           \/ q = absDest}

Pruned(f, absDest) == {p \in DOMAIN f : \E q \in PrunedDirs(f, absDest) : Under(p, q)}

\* where the copy pass mirrors source path p
MirrorOf(run, p) == Abs(Join(run.destHomeDir, Rel(HomeDir, p)))

Finished(run) == run.pc \in {"ret", "done"}

\* ------------------------------------------------------------------------
\* C1: in every poll cycle, with A the previous snapshot and B the mount points
\* of this cycle, exactly |B - A| attach events and |A - B| detach events are
\* sent, and no mount point is in two events of the same kind (so none is sent
\* when B equals A).  Stated at the end of the cycle, before the snapshot is
\* replaced.  The code sends one event per list element, so a mount point
\* listed twice is announced twice.
\* ------------------------------------------------------------------------
C1_DiffingExact ==
    mpc = "assign" =>
        /\ Cardinality(Attached)
             = Cardinality(SetOf(currentPartitions) \ SetOf(previousPartitions))
        /\ Cardinality(Detached)
             = Cardinality(SetOf(previousPartitions) \ SetOf(currentPartitions))
        /\ \A i, j \in 1..Len(cycleSent) :
               (i # j /\ cycleSent[i].removed = cycleSent[j].removed)
                   => cycleSent[i].path # cycleSent[j].path

\* ------------------------------------------------------------------------
\* C2: a failed mount-table query sends no event in its cycle and leaves the
\* stored snapshot as it was: every step that ends with the last query failed
\* keeps previousPartitions, has sent nothing in the cycle, and leaves the
\* monitor at the query.
\* ------------------------------------------------------------------------
C2_PollFailureIsolated ==
    [][lastPoll' = "failed" =>
          /\ previousPartitions' = previousPartitions
          /\ cycleSent' = <<>>
          /\ mpc' = "poll"]_vars

C2_Witness ==
    /\ lastPoll = "failed"
    /\ previousPartitions # <<>>
    /\ Len(availableUSBs) > 0
    /\ cpc = "recv"

\* ------------------------------------------------------------------------
\* C3: in a run that meets no I/O error, the copiedFiles values reported are
\* 1, 2, ..., N, each with the same totalFiles = N, where N is the number of
\* non-excluded files, and the files counted are the files copied.  While the
\* copy pass runs, the values reported so far are 1..copiedFiles.
\* ------------------------------------------------------------------------
C3_ProgressSequence ==
    \A r \in 1..Len(runs) :
        /\ runs[r].sink = [i \in 1..runs[r].copiedFiles |-> <<i, runs[r].totalFiles>>]
        /\ (Finished(runs[r]) /\ ~runs[r].ioError) =>
               /\ runs[r].counted = SourceFiles(fs, runs[r].absDestHomeDir)
               /\ runs[r].copied = runs[r].counted
               /\ runs[r].totalFiles = Cardinality(runs[r].counted)
               /\ Len(runs[r].sink) = runs[r].totalFiles

C3_Witness ==
    \E r \in 1..Len(runs) :
        /\ runs[r].pc = "done"
        /\ ~runs[r].ioError
        /\ runs[r].sink = <<(<<1, 2>>), (<<2, 2>>)>>
        /\ Cardinality(runs[r].visited1) > 3

\* ------------------------------------------------------------------------
\* C4: no entry inside a hidden directory, inside a directory matching an
\* excluded substring, or inside the backup directory nested in the source is
\* counted, is visited by either walk, or exists at its mirrored path in the
\* destination tree, in any state of a run that has resolved its destination.
\* ------------------------------------------------------------------------
C4_ExcludedSubtreesPruned ==
    \A r \in 1..Len(runs) :
        \A p \in Pruned(fs, runs[r].absDestHomeDir) :
            runs[r].absDestHomeDir # <<>> =>
                /\ p \notin runs[r].counted
                /\ p \notin runs[r].visited1
                /\ p \notin runs[r].visited2
                /\ MirrorOf(runs[r], p) \notin DOMAIN fs

\* a finished, successful run on a tree with the three kinds of excluded
\* directory, each with an entry inside
C4_Witness ==
    \E r \in 1..Len(runs) :
        /\ runs[r].pc = "done"
        /\ runs[r].err = "nil"
        /\ runs[r].destPath = MountU
        /\ H2(NameHid, NameX) \in Pruned(fs, runs[r].absDestHomeDir)
        /\ H2(NameCache, NameF) \in Pruned(fs, runs[r].absDestHomeDir)
        /\ H3(NameU, HomeBackup, NameA) \in Pruned(fs, runs[r].absDestHomeDir)
        /\ H1(NameCache) \in runs[r].visited1 \cap runs[r].visited2

\* ------------------------------------------------------------------------
\* C5: after copyHomeFolder returns success, every non-excluded source file is
\* at its mirrored path with the same content and permission bits, and every
\* non-excluded source directory, the source root included, is at its mirrored
\* path with the source directory's permission bits.  The code creates the
\* backup root with 0755 before the walk and os.MkdirAll leaves an existing
\* directory's mode alone, so the root's mode is not the source's.
\* ------------------------------------------------------------------------
C5_MirrorFidelity ==
    \A r \in 1..Len(runs) :
        (Finished(runs[r]) /\ runs[r].err = "nil") =>
            \A p \in SourceEntries(fs, runs[r].absDestHomeDir) :
                /\ MirrorOf(runs[r], p) \in DOMAIN fs
                /\ fs[MirrorOf(runs[r], p)] = fs[p]

\* ------------------------------------------------------------------------
\* C6: if the N-th file copy of a run fails, the run has returned a failure,
\* nothing is left to walk, exactly the N-1 files before it were copied, and
\* the progress values reported are those of files 1..N-1 (none for file N).
\* ------------------------------------------------------------------------
C6_FailFast ==
    \A r \in 1..Len(runs) :
        runs[r].failedCopy > 0 =>
            /\ Finished(runs[r])
            /\ runs[r].err # "nil"
            /\ runs[r].todo = <<>>
            /\ runs[r].copiedFiles = runs[r].failedCopy - 1
            /\ Cardinality(runs[r].copied) = runs[r].failedCopy - 1
            /\ Len(runs[r].sink) = runs[r].failedCopy - 1
            /\ \A i \in 1..Len(runs[r].sink) : runs[r].sink[i][1] < runs[r].failedCopy

\* the second file copy failed, with more of the tree left to walk
C6_Witness ==
    \E r \in 1..Len(runs) :
        /\ runs[r].failedCopy = 2
        /\ runs[r].pc = "done"
        /\ Len(runs[r].sink) = 1

\* ------------------------------------------------------------------------
\* C7: every started run reports exactly one terminal outcome, the success
\* notification or the failure notification, never both and never none, and
\* after the run's last progress update.  A run has reported one outcome when
\* its goroutine is done and none before; the outcome is the error dialog
\* exactly when copyHomeFolder returned an error, it is the only dialog of the
\* run, and no progress update follows it.  A run that is not done is never
\* stuck (it has a statement to run) and takes a bounded number of steps: one
\* per entry the walks call back on in each pass, and three more.
\* ------------------------------------------------------------------------
\* the entries a walk of the home directory calls its callback on
Walkable(f, absDest) ==
    {p \in DOMAIN f :
        /\ InHome(p)
        /\ \A q \in DOMAIN f : (InHome(q) /\ Under(p, q)) => ~ExcludedCount(q, absDest)}

C7_OneOutcome ==
    \A r \in 1..Len(runs) :
        /\ Len(runs[r].outcomes) = (IF runs[r].pc = "done" THEN 1 ELSE 0)
        /\ runs[r].pc = "done" =>
               /\ runs[r].outcomes[1].updates = runs[r].updates
               /\ runs[r].outcomes[1].kind
                    = (IF runs[r].err = "nil" THEN "information" ELSE "error")
               /\ {d \in dialogs : d.run = r}
                    = {[kind |-> runs[r].outcomes[1].kind, run |-> r,
                        msg |-> runs[r].err]}
        /\ runs[r].pc \in {"count", "copy"} => runs[r].todo # <<>>
        /\ runs[r].steps
             <= 3 + 2 * Cardinality(Walkable(fs, Abs(Join(runs[r].destPath, HomeBackup))))

\* a run that failed after progress was reported, with its one outcome, while
\* another run is still copying
C7_Witness ==
    \E r, q \in 1..Len(runs) :
        /\ runs[r].pc = "done"
        /\ runs[r].outcomes[1].kind = "error"
        /\ runs[r].updates >= 1
        /\ runs[q].pc = "copy"

\* ------------------------------------------------------------------------
\* C8: a click on Start Migration while nothing is selected is rejected with
\* the error dialog, and starts no run, touches no file and leaves the
\* progress bar alone.
\* ------------------------------------------------------------------------
SelectError == [kind |-> "error", run |-> 0, msg |-> "please select a USB drive first"]

C8_RejectedBeforeIO ==
    [][(usbSelect.Selected = <<>> /\ click' # click) =>
          /\ click' = "rejected"
          /\ SelectError \in dialogs'
          /\ runs' = runs
          /\ fs' = fs
          /\ progress' = progress]_vars

\* a rejected click with a drive attached but none selected
C8_Witness ==
    /\ click = "rejected"
    /\ SelectError \in dialogs
    /\ Len(availableUSBs) > 0
    /\ usbSelect.Selected = <<>>
    /\ runs = <<>>

\* ------------------------------------------------------------------------
\* C9: at most one run of copyHomeFolder is active (started, outcome not yet
\* reported) at any time.  The start handler has no such guard: a second click
\* starts a second goroutine.
\* ------------------------------------------------------------------------
C9_SingleActiveRun ==
    Cardinality({r \in 1..Len(runs) : runs[r].pc # "done"}) <= 1

\* ------------------------------------------------------------------------
\* C10: when the enumeration pass yields totalFiles = 0, the run is reported
\* as complete at once (progress value 1) and copiedFiles is never divided by
\* a zero totalFiles.  Stated of a run that has returned success.  The code
\* sets the progress bar to 0 and divides by totalFiles whatever it is.
\* ------------------------------------------------------------------------
C10_ZeroTotalComplete ==
    \A r \in 1..Len(runs) :
        (runs[r].totalFiles = 0 /\ Finished(runs[r]) /\ runs[r].err = "nil") =>
            /\ progress.Value = FloatOne
            /\ \A i \in 1..Len(runs[r].sink) : runs[r].sink[i][2] # 0

\* ------------------------------------------------------------------------
\* C11: every event detectUSB sends on usbChan is received by the consumer
\* exactly once and in the order sent, and the monitor does not go past a send
\* before the consumer has taken the event.  Every step that sends an event is
\* the step at which the consumer, waiting to receive, takes that very event;
\* the consumer takes an event at no other step; and the event it is handling
\* is not replaced before it has handled it.
\* ------------------------------------------------------------------------
C11_HandedOffOnce ==
    [][/\ (cycleSent' # cycleSent /\ cycleSent' # <<>>) =>
              /\ cpc = "recv" /\ cpc' = "handle"
              /\ cycleSent' = Append(cycleSent, event')
              /\ mi' = mi + 1
       /\ (cpc = "recv" /\ cpc' = "handle") => cycleSent' = Append(cycleSent, event')
       /\ cpc = "handle" => event' = event
       /\ (mpc \in {"added", "removed"} /\ mi' = mi + 1 /\ cycleSent' = cycleSent) =>
              IF mpc = "added"
              THEN InList(currentPartitions[mi], previousPartitions)
              ELSE InList(previousPartitions[mi], currentPartitions)]_vars

\* the second event of a cycle, a detach after an attach, being handled
C11_Witness ==
    /\ Len(cycleSent) = 2
    /\ ~cycleSent[1].removed /\ cycleSent[2].removed
    /\ cpc = "handle"
    /\ event = cycleSent[2]

\* ------------------------------------------------------------------------
\* C12: between any two consecutive mount-table queries, successful or failed,
\* the monitor sleeps: no query is made while the last thing the monitor did
\* is a failed query.  The continue of the error branch skips time.Sleep, so
\* the next query follows the failed one at once.
\* ------------------------------------------------------------------------
C12_SleepBetweenQueries ==
    [][(mpc = "poll" /\ (mpc' = "added" \/ lastPoll' # lastPoll)) =>
          lastPoll # "failed"]_vars

\* ------------------------------------------------------------------------
\* C13: a walk error on an entry during the enumeration pass never ends the
\* run: the entry is skipped (not counted, not descended into), no error is
\* recorded, and the pass goes on to the rest of the walk and then to the
\* preparation; an error on an entry during the copy pass ends the walk and the
\* run returns "error copying files".
\* ------------------------------------------------------------------------
C13_CountLenientCopyStrict ==
    [][\A r \in 1..Len(runs) :
          (Len(runs') = Len(runs) /\ runs'[r] # runs[r]) =>
              /\ runs[r].pc = "count" =>
                     /\ runs'[r].pc \in {"count", "prep"}
                     /\ runs'[r].err = "nil"
                     /\ errs' > errs =>
                            /\ runs'[r].ioError
                            /\ runs'[r].totalFiles = runs[r].totalFiles
                            /\ runs'[r].todo = Tail(runs[r].todo)
              /\ (runs[r].pc = "copy" /\ errs' > errs) =>
                     /\ runs'[r].pc = "ret"
                     /\ runs'[r].err = "error copying files"
                     /\ runs'[r].todo = <<>>]_vars

\* a run that met an error in the enumeration pass and still returned success,
\* having copied more files than it counted
C13_Witness ==
    \E r \in 1..Len(runs) :
        /\ runs[r].pc = "done"
        /\ runs[r].err = "nil"
        /\ runs[r].ioError
        /\ runs[r].totalFiles < Cardinality(runs[r].copied)

\* ------------------------------------------------------------------------
\* C14: every progress value reported during a run is copiedFiles / totalFiles
\* and lies in [0, 1], also when the enumeration pass skipped entries on walk
\* errors that the copy pass then copies.  The code divides by the count of the
\* enumeration pass whatever the copy pass finds, so the value passes 1.
\* ------------------------------------------------------------------------
C14_ProgressInUnitInterval ==
    /\ progress.Value[2] > 0
    /\ progress.Value[1] <= progress.Value[2]
    /\ \A r \in 1..Len(runs) :
           \A i \in 1..Len(runs[r].sink) :
               /\ runs[r].sink[i][2] > 0
               /\ runs[r].sink[i][1] <= runs[r].sink[i][2]

\* ------------------------------------------------------------------------
\* C15: a failed run rolls nothing back: when copyHomeFolder has returned an
\* error, every file it copied is at its mirrored path with the source's
\* content and mode, every directory the copy walk went into is at its
\* mirrored path, and the backup root made before the walk is there.
\* ------------------------------------------------------------------------
C15_NoRollback ==
    \A r \in 1..Len(runs) :
        (Finished(runs[r]) /\ runs[r].err # "nil") =>
            /\ \A p \in runs[r].copied :
                   /\ MirrorOf(runs[r], p) \in DOMAIN fs
                   /\ fs[MirrorOf(runs[r], p)] = fs[p]
            /\ \A p \in runs[r].visited2 :
                   (\E q \in runs[r].visited2 : Under(q, p)) =>
                       IsDir(fs, MirrorOf(runs[r], p))
            /\ runs[r].visited2 # {} => IsDir(fs, Abs(runs[r].destHomeDir))

\* a run reported as failed after it had copied a file and gone into a
\* subdirectory
C15_Witness ==
    \E r \in 1..Len(runs) :
        /\ runs[r].pc = "done"
        /\ runs[r].err = "error copying files"
        /\ runs[r].copied # {}
        /\ \E p, q \in runs[r].visited2 : p # HomeDir /\ Under(q, p)

\* ------------------------------------------------------------------------
\* C20: the destination rule excludes a source path only if it is the resolved
\* backup root or lies under it component-wise: in a run that returned success
\* and met no I/O error, every file of the home directory that is not hidden,
\* matches no excluded substring and is neither the backup root nor inside it
\* (nor inside a directory excluded in that sense) is counted and copied.  The
\* code tests a string prefix, which also excludes a sibling of the backup root
\* whose name begins with "home_backup".
\* ------------------------------------------------------------------------
C20_DestinationRuleByComponents ==
    \A r \in 1..Len(runs) :
        (Finished(runs[r]) /\ runs[r].err = "nil" /\ ~runs[r].ioError) =>
            \A p \in DOMAIN fs :
                (/\ InHome(p)
                 /\ fs[p].kind = "file"
                 /\ \A q \in DOMAIN fs :
                        (InHome(q) /\ (q = p \/ Under(p, q)))
                            => ~(\/ HasPrefix(Base(q), Dot)
                                 \/ Contains(q, GoPkgMod) \/ Contains(q, DotCache)
                                 \/ Contains(q, DotLocalShare)
                                 \/ Abs(q) = runs[r].absDestHomeDir
                                 \/ Under(Abs(q), runs[r].absDestHomeDir)))
                    => /\ p \in runs[r].counted
                       /\ p \in runs[r].copied
                       /\ MirrorOf(runs[r], p) \in DOMAIN fs

\* ------------------------------------------------------------------------
\* C16: availableUSBs is owned by the consumer goroutine: only the consumer's
\* loop body changes it, and the start handler, which looks the selected drive
\* up in it, reads it only while the consumer is waiting for an event and so
\* cannot be modifying it.  The handler runs on the toolkit's goroutine with no
\* lock or hand-over, so it does read the list while the consumer is inside
\* its loop body.
\* ------------------------------------------------------------------------
C16_ListOwnedByConsumer ==
    [][/\ availableUSBs' # availableUSBs => (cpc = "handle" /\ cpc' = "recv")
       /\ Len(runs') > Len(runs) => cpc = "recv"]_vars

\* ------------------------------------------------------------------------
\* C17: when the consumer handles a detach event, the selection is cleared if
\* the selected drive is no longer in the list and is left as it was if the
\* selected drive is still in the list.  The code compares each drive's name
\* with usbSelect.Selected, which holds the option text "name (size GB)", so
\* no drive is ever found and every detach clears the selection.
\* ------------------------------------------------------------------------
C17_SelectionFollowsList ==
    [][(cpc = "handle" /\ cpc' = "recv" /\ event.removed
        /\ usbSelect.Selected # <<>>) =>
          IF \E i \in 1..Len(availableUSBs') :
                 OptionName(availableUSBs'[i]) = usbSelect.Selected
          THEN usbSelect'.Selected = usbSelect.Selected
          ELSE usbSelect'.Selected = <<>>]_vars

\* ------------------------------------------------------------------------
\* C18: whenever the monitor has finished a poll cycle and the consumer has
\* handled every event of it, the set of paths in availableUSBs equals the set
\* of mount points in previousPartitions.  The monitor sends one attach per
\* list element and the consumer removes one entry per detach, so a mount point
\* listed twice and later once leaves an entry behind when it is detached.
\* ------------------------------------------------------------------------
C18_ListMatchesSnapshot ==
    (mpc \in {"sleep", "poll"} /\ cpc = "recv") =>
        {availableUSBs[i].path : i \in 1..Len(availableUSBs)}
            = SetOf(previousPartitions)

\* ------------------------------------------------------------------------
\* C19: every call of copyHomeFolder the start handler makes passes a
\* non-empty mount path of a device that is in availableUSBs at the request.
\* The handler looks the drive up by the text of the selection before its
\* first space and starts the run whether or not the lookup found a drive, so
\* a drive whose name has a space in it starts a run toward the empty path.
\* ------------------------------------------------------------------------
C19_DestinationIsListedDrive ==
    [][Len(runs') > Len(runs) =>
          /\ runs'[Len(runs')].destPath # <<>>
          /\ \E i \in 1..Len(availableUSBs) :
                 availableUSBs[i].path = runs'[Len(runs')].destPath]_vars

====
